---- MODULE Spec2Model ----
(***************************************************************************)
(* Model of src/index.js: a voice-channel bot that follows one designated  *)
(* member, measures the loudness of the member's decoded audio and server- *)
(* mutes the member when it exceeds a threshold, with a cooldown.          *)
(*                                                                         *)
(* The JavaScript runtime is single threaded: every handler below runs to  *)
(* completion, so each handler is one atomic action.  The only actual      *)
(* asynchrony is the setMute promise, modelled by pendingMutes and the     *)
(* actions that settle it.                                                 *)
(***************************************************************************)
EXTENDS Integers, Sequences, FiniteSets, TLC

(***************************************************************************)
(* Program constants                                                       *)
(***************************************************************************)
\* index.js:9  the monitored member (AUTHORIZED_USER_ID); OtherUser is any other id
AUTHORIZED_USER_ID == "subject"
OtherUser == "other"
Users == {AUTHORIZED_USER_ID, OtherUser}

\* index.js:11
MUTE_COOLDOWN == 5000

\* index.js:10 DECIBEL_THRESHOLD = 42.9 dB, as the amplitude it stands for:
\* 20*log10(a) > 42.9 exactly when a > 10^(42.9/20) = 139.63683..., kept here
\* times 10^4 and truncated
DECIBEL_THRESHOLD == 1396368

(***************************************************************************)
(* Bounds of the model                                                     *)
(***************************************************************************)
MaxStreams == 2        \* audio streams ever created by receiver.subscribe
MaxConnections == 2    \* voice connections ever created by joinVoiceChannel
MaxTicks == 2          \* clock advances in a behaviour

None == "none"
Channels == {"c1", "c2"}

\* Date.now() at start up is far above MUTE_COOLDOWN (epoch milliseconds)
StartTime == 2 * MUTE_COOLDOWN
\* steps of the clock: half a cooldown, so that frames arrive 2500 ms, exactly
\* 5000 ms and 7500 ms after a mute
TickSteps == {MUTE_COOLDOWN \div 2}

\* decoded chunks (byte values): the empty chunk, silence, a mean of 138.5 just
\* below the threshold (mean + 1 = 139.5), a mean of 139 just above it, the loudest
Chunks == {<<>>, <<0, 0>>, <<138, 139>>, <<139, 139>>, <<255>>}

VARIABLES
    pc,               \* "init" before the ready event, "running", "exited" after process.exit
    isMonitoring,     \* index.js:28
    lastMuteTime,     \* index.js:26
    activeStreams,    \* index.js:24  Map userId -> stream (index into streams)
    streams,          \* every audio stream receiver.subscribe has created
    connections,      \* every voice connection joinVoiceChannel has created
    voiceConnections, \* the library's guild -> connection map (getVoiceConnection); 0 = none
    now,              \* Date.now()
    ticks,            \* number of clock advances so far
    serverMute,       \* user.voice.serverMute of the monitored member
    muteLog,          \* the setMute(true) calls issued, in order
    pendingMutes,     \* setMute(true) promises not yet settled
    subjectChannel,   \* the voice channel the monitored member is in, or None
    lastEvent         \* the handler that ran last, with its inputs

vars == <<pc, isMonitoring, lastMuteTime, activeStreams, streams, connections,
          voiceConnections, now, ticks, serverMute, muteLog, pendingMutes,
          subjectChannel, lastEvent>>

(***************************************************************************)
(* Pure helpers                                                            *)
(***************************************************************************)
Abs(x) == IF x < 0 THEN -x ELSE x

RECURSIVE SumAbs(_, _)
\* index.js:54-57  the loop of calculateVolume over data[0..i-1]
SumAbs(data, i) == IF i = 0 THEN 0 ELSE SumAbs(data, i - 1) + Abs(data[i])

\* index.js:53-60  calculateVolume.  The code returns 20*log10(avg + 1); log10 is
\* strictly increasing, so the model keeps the argument of the logarithm,
\* avg + 1, times 10^4.  Only called on chunks of at least one byte.
calculateVolume(data) == ((SumAbs(data, Len(data)) + Len(data)) * 10000) \div Len(data)

\* index.js:140  volume > DECIBEL_THRESHOLD
ExceedsThreshold(volume) == volume > DECIBEL_THRESHOLD

\* the cooldown taken for seconds where the clock counts milliseconds
InCooldownInSeconds(t, last) == t - last < MUTE_COOLDOWN \div 1000

\* index.js:135  the cooldown test: TRUE when the frame is skipped
InCooldown(t, last) == t - last < MUTE_COOLDOWN

\* the decision without the test of user.voice.serverMute
DecideWithoutMuteTest(volume, muted, t, last) ==
    /\ ~InCooldown(t, last)
    /\ ExceedsThreshold(volume)

\* index.js:128-147  the decision of the data handler for a non-empty chunk:
\* TRUE when the handler reaches user.voice.setMute(true, ...)
Decide(volume, muted, t, last) ==
    /\ ~muted
    /\ ~InCooldown(t, last)
    /\ ExceedsThreshold(volume)

(***************************************************************************)
(* Streams and the registry                                                *)
(***************************************************************************)
\* index.js:93  a stream as receiver.subscribe returns it, piped into a decoder (index.js:99)
NewStream(c) == [conn |-> c, destroyCalls |-> 0, ended |-> FALSE, piped |-> TRUE]

\* a stream that is still subscribed: never destroyed and not ended
Live(st) == st.destroyCalls = 0 /\ ~st.ended

\* stream.destroy()  (index.js:70, 108, 249, 271)
StreamDestroy(strs, s) == [strs EXCEPT ![s].destroyCalls = @ + 1]

\* activeStreams.has / set / delete  (index.js:88, 97, 154)
Has(reg, u) == u \in DOMAIN reg
MapSet(reg, u, s) == [v \in (DOMAIN reg) \cup {u} |-> IF v = u THEN s ELSE reg[v]]
MapDelete(reg, u) == [v \in (DOMAIN reg) \ {u} |-> reg[v]]
EmptyMap == [v \in {} |-> 0]

\* index.js:68-72  the forEach of stopAllMonitoring: destroy every registered stream
StopAllStreams(strs, reg) ==
    [i \in 1..Len(strs) |->
        IF \E u \in DOMAIN reg : reg[u] = i
        THEN [strs[i] EXCEPT !.destroyCalls = @ + 1]
        ELSE strs[i]]

\* stopAllMonitoring without the isMonitoring = false of line 65
stopKeepingEnabled(strs, reg) ==
    [isMonitoring |-> isMonitoring, streams |-> StopAllStreams(strs, reg),
     activeStreams |-> EmptyMap]

\* stopAllMonitoring without the activeStreams.clear() of line 75
stopWithoutClear(strs, reg) ==
    [isMonitoring |-> FALSE, streams |-> StopAllStreams(strs, reg), activeStreams |-> reg]

\* index.js:63-76  stopAllMonitoring, as the new values of the state it writes
stopAllMonitoring(strs, reg) ==
    [isMonitoring |-> FALSE, streams |-> StopAllStreams(strs, reg), activeStreams |-> EmptyMap]

\* index.js:246-252 and 268-274  the clean-up of the subject's stream on leave and move
CleanupSubject(strs, reg) ==
    IF Has(reg, AUTHORIZED_USER_ID)
    THEN [streams |-> StreamDestroy(strs, reg[AUTHORIZED_USER_ID]),
          activeStreams |-> MapDelete(reg, AUTHORIZED_USER_ID)]
    ELSE [streams |-> strs, activeStreams |-> reg]

(***************************************************************************)
(* Connections                                                             *)
(***************************************************************************)
\* a destroy that leaves the connection as it is
ConnectionKept(conns, c) == conns

\* connection.destroy()  (index.js:181, 259, 302): the library marks the connection
\* destroyed and drops it from its guild map
ConnectionDestroy(conns, c) == [conns EXCEPT ![c].status = "destroyed"]

\* index.js:185-191  joinVoiceChannel
NewConnection(channel) == [channelId |-> channel, status |-> "ready"]

\* joinAndMonitor without the test of lines 172-177: it rejoins the channel it is in
joinAndMonitorRejoining(channel, throws) ==
    LET existingConnection == voiceConnections
        afterDestroy == IF existingConnection # 0
                        THEN ConnectionDestroy(connections, existingConnection)
                        ELSE connections
    IN IF throws
       THEN [connections |-> afterDestroy, voiceConnections |-> 0,
             isMonitoring |-> isMonitoring]
       ELSE [connections |-> Append(afterDestroy, NewConnection(channel)),
             voiceConnections |-> Len(afterDestroy) + 1,
             isMonitoring |-> TRUE]

\* index.js:169-224  joinAndMonitor(channel, guild), as the new values of the state
\* it writes.  throws: joinVoiceChannel raises and the catch of line 220 runs.
joinAndMonitor(channel, throws) ==
    LET existingConnection == voiceConnections IN
    IF existingConnection # 0 /\ connections[existingConnection].channelId = channel
    THEN [connections |-> connections, voiceConnections |-> existingConnection,
          isMonitoring |-> TRUE]
    ELSE LET afterDestroy == IF existingConnection # 0
                             THEN ConnectionDestroy(connections, existingConnection)
                             ELSE connections
         IN IF throws
            THEN [connections |-> afterDestroy, voiceConnections |-> 0,
                  isMonitoring |-> isMonitoring]
            ELSE [connections |-> Append(afterDestroy, NewConnection(channel)),
                  voiceConnections |-> Len(afterDestroy) + 1,
                  isMonitoring |-> TRUE]

\* The model explores the mute policy (the clock, loud audio, the server mute)
\* over the behaviours of one connection and one stream, and the life cycle of
\* more connections and streams over behaviours in which the audio stays below
\* the threshold: both in full, not their product.
\* Quiet: no clock step, no mute and no server mute so far
Quiet == ticks = 0 /\ muteLog = <<>> /\ ~serverMute
\* Small: one connection and one stream at most, so the clock and loud audio go on
Small == Len(streams) <= 1 /\ Len(connections) <= 1

\* the streams and connections a behaviour may still create
StreamRoom == IF Quiet THEN MaxStreams ELSE 1
ConnectionRoom == IF Quiet THEN MaxConnections ELSE 1

\* joinAndMonitor needs room for the connection it would create
JoinFits(channel, throws) ==
    \/ voiceConnections # 0 /\ connections[voiceConnections].channelId = channel
    \/ throws
    \/ Len(connections) < ConnectionRoom

\* the record kept in lastEvent: the handler that ran last ("other" for a step
\* of the platform or the clock, and for a presence or speaking event that is
\* not the member's), the stream it ran for, the managed connection it found,
\* and its inputs
Event(type) ==
    [type |-> type, stream |-> 0, conn |-> 0, level |-> None, cmd |-> None,
     threw |-> FALSE]

Init ==
    /\ pc = "init"
    /\ isMonitoring = FALSE
    /\ lastMuteTime = 0
    /\ activeStreams = EmptyMap
    /\ streams = <<>>
    /\ connections = <<>>
    /\ voiceConnections = 0
    /\ now = StartTime
    /\ ticks = 0
    /\ serverMute = FALSE
    /\ muteLog = <<>>
    /\ pendingMutes = 0
    /\ subjectChannel \in {None, "c1"}   \* c1 names the channel the member starts in, if any
    /\ lastEvent = Event("none")

(***************************************************************************)
(* client.once('ready')  index.js:30-50                                    *)
(***************************************************************************)
Ready(throws) ==
    /\ pc = "init"
    /\ subjectChannel = None => ~throws
    /\ pc' = "running"
    /\ LET j == IF subjectChannel # None
                THEN joinAndMonitor(subjectChannel, throws)
                ELSE [connections |-> connections, voiceConnections |-> voiceConnections,
                      isMonitoring |-> isMonitoring]
       IN /\ connections' = j.connections
          /\ voiceConnections' = j.voiceConnections
          /\ isMonitoring' = j.isMonitoring
    /\ lastEvent' = [Event("ready") EXCEPT !.threw = throws]
    /\ UNCHANGED <<lastMuteTime, activeStreams, streams, now, ticks, serverMute,
                   muteLog, pendingMutes, subjectChannel>>

(***************************************************************************)
(* processAudio  index.js:79-99 (the part that runs at the call)           *)
(***************************************************************************)
\* receiver.subscribe(user.id): the receiver of connection c hands back the
\* stream it already holds for the user when it holds one, else a new stream
Subscription(strs, c) == {s \in 1..Len(strs) : strs[s].conn = c /\ Live(strs[s])}

\* index.js:93-99  subscribe, decode, register
Subscribe(strs, reg, c, u) ==
    IF Subscription(strs, c) # {}
    THEN LET s == CHOOSE x \in Subscription(strs, c) : TRUE
         IN [streams |-> [strs EXCEPT ![s].piped = TRUE], activeStreams |-> MapSet(reg, u, s)]
    ELSE [streams |-> Append(strs, NewStream(c)), activeStreams |-> MapSet(reg, u, Len(strs) + 1)]

\* processAudio with the test of the registry turned round
processAudioInverted(strs, reg, enabled, c, u) ==
    IF ~enabled
    THEN [streams |-> strs, activeStreams |-> reg]
    ELSE IF ~Has(reg, u)
         THEN [streams |-> strs, activeStreams |-> reg]
         ELSE Subscribe(strs, reg, c, u)

\* index.js:79-99  processAudio(receiver, user), as the new values of the state it writes
processAudio(strs, reg, enabled, c, u) ==
    IF ~enabled
    THEN [streams |-> strs, activeStreams |-> reg]
    ELSE IF Has(reg, u)
         THEN [streams |-> strs, activeStreams |-> reg]
         ELSE Subscribe(strs, reg, c, u)

\* index.js:211-217  receiver.speaking.on('start') of connection c.
\* cached: guild.members.cache.get(userId) finds the member
SpeakingStart(c, userId, cached) ==
    /\ pc = "running"
    /\ c \in 1..Len(connections)
    /\ connections[c].status = "ready"
    /\ userId = AUTHORIZED_USER_ID => subjectChannel = connections[c].channelId
    /\ LET r == IF userId = AUTHORIZED_USER_ID /\ isMonitoring /\ cached
                THEN processAudio(streams, activeStreams, isMonitoring, c, userId)
                ELSE [streams |-> streams, activeStreams |-> activeStreams]
       IN /\ Len(r.streams) <= StreamRoom
          /\ streams' = r.streams
          /\ activeStreams' = r.activeStreams
    /\ lastEvent' = IF userId = AUTHORIZED_USER_ID /\ cached
                    THEN [Event("speaking") EXCEPT !.conn = c]
                    ELSE Event("other")
    /\ UNCHANGED <<pc, isMonitoring, lastMuteTime, connections, voiceConnections, now,
                   ticks, serverMute, muteLog, pendingMutes, subjectChannel>>

(***************************************************************************)
(* pcmStream.on('data')  index.js:105-148                                  *)
(***************************************************************************)
\* a decoded chunk can arrive on stream s: the stream is subscribed and piped
\* into a working decoder, its connection carries audio and the member is there
CanDeliver(s) ==
    /\ s \in 1..Len(streams)
    /\ Live(streams[s])
    /\ streams[s].piped
    /\ connections[streams[s].conn].status = "ready"
    /\ subjectChannel = connections[streams[s].conn].channelId

\* the setMute call issued before lastMuteTime is written
MuteThenStamp(log, t, last) ==
    [lastMuteTime |-> t, muteLog |-> Append(log, [at |-> t, stamp |-> last])]

\* index.js:142-144  the write of lastMuteTime and the setMute call that follows
\* it: the call is logged with the time and the lastMuteTime it was issued under
MuteAndStamp(log, t, last) ==
    LET stamped == t
    IN [lastMuteTime |-> stamped, muteLog |-> Append(log, [at |-> t, stamp |-> stamped])]

\* what the handler finds in the chunk (index.js:113, 118, 140)
Level(chunk) ==
    IF Len(chunk) = 0 THEN "empty"
    ELSE IF ExceedsThreshold(calculateVolume(chunk)) THEN "loud" ELSE "quiet"

DataHandler(s, chunk) ==
    /\ pc = "running"
    /\ CanDeliver(s)
    /\ Level(chunk) = "loud" => Small
    /\ lastEvent' = [Event("frame") EXCEPT !.stream = s, !.level = Level(chunk)]
    /\ IF ~isMonitoring
       THEN /\ streams' = StreamDestroy(streams, s)
            /\ UNCHANGED <<lastMuteTime, muteLog, pendingMutes>>
       ELSE IF Len(chunk) = 0
       THEN UNCHANGED <<streams, lastMuteTime, muteLog, pendingMutes>>
       ELSE IF Decide(calculateVolume(chunk), serverMute, now, lastMuteTime)
       THEN LET m == MuteAndStamp(muteLog, now, lastMuteTime)
            IN /\ lastMuteTime' = m.lastMuteTime
               /\ muteLog' = m.muteLog
               /\ pendingMutes' = pendingMutes + 1
               /\ UNCHANGED streams
       ELSE UNCHANGED <<streams, lastMuteTime, muteLog, pendingMutes>>
    /\ UNCHANGED <<pc, isMonitoring, activeStreams, connections, voiceConnections, now,
                   ticks, serverMute, subjectChannel>>

(***************************************************************************)
(* pcmStream.on('error') index.js:150-156, audioStream.on('end') 159-165   *)
(***************************************************************************)
\* index.js:153-155 and 162-164  if (activeStreams.has(user.id)) activeStreams.delete(user.id)
Deregister(reg, u) == IF Has(reg, u) THEN MapDelete(reg, u) ELSE reg

\* the decoder of stream s fails on a packet: the decoder is gone, the audio
\* stream it was fed from is left as it is
ErrorHandler(s) ==
    /\ pc = "running"
    /\ CanDeliver(s)
    /\ streams' = [streams EXCEPT ![s].piped = FALSE]
    /\ activeStreams' = Deregister(activeStreams, AUTHORIZED_USER_ID)
    /\ lastEvent' = [Event("error") EXCEPT !.stream = s]
    /\ UNCHANGED <<pc, isMonitoring, lastMuteTime, connections, voiceConnections, now,
                   ticks, serverMute, muteLog, pendingMutes, subjectChannel>>

\* the audio stream s ends by itself: the platform closes it
EndHandler(s) ==
    /\ pc = "running"
    /\ s \in 1..Len(streams)
    /\ Live(streams[s])
    /\ streams' = [streams EXCEPT ![s].ended = TRUE, ![s].piped = FALSE]
    /\ activeStreams' = Deregister(activeStreams, AUTHORIZED_USER_ID)
    /\ lastEvent' = [Event("end") EXCEPT !.stream = s]
    /\ UNCHANGED <<pc, isMonitoring, lastMuteTime, connections, voiceConnections, now,
                   ticks, serverMute, muteLog, pendingMutes, subjectChannel>>

(***************************************************************************)
(* client.on('voiceStateUpdate')  index.js:227-280                         *)
(***************************************************************************)
\* index.js:241-261  Case 2, the member left: new values of the state it writes
LeaveCase ==
    LET c == CleanupSubject(streams, activeStreams)
        connection == voiceConnections
    IN IF connection # 0
       THEN LET st == stopAllMonitoring(c.streams, c.activeStreams)
            IN [streams |-> st.streams, activeStreams |-> st.activeStreams,
                isMonitoring |-> st.isMonitoring,
                connections |-> ConnectionDestroy(connections, connection),
                voiceConnections |-> 0]
       ELSE [streams |-> c.streams, activeStreams |-> c.activeStreams,
             isMonitoring |-> isMonitoring,
             connections |-> connections, voiceConnections |-> voiceConnections]

\* index.js:263-278  Case 3, the member moved to newChannel
MoveCase(newChannel, throws) ==
    LET c == CleanupSubject(streams, activeStreams)
        j == joinAndMonitor(newChannel, throws)
    IN [streams |-> c.streams, activeStreams |-> c.activeStreams,
        isMonitoring |-> j.isMonitoring,
        connections |-> j.connections, voiceConnections |-> j.voiceConnections]

\* index.js:235-239  Case 1, the member joined newChannel
JoinCase(newChannel, throws) ==
    LET j == joinAndMonitor(newChannel, throws)
    IN [streams |-> streams, activeStreams |-> activeStreams,
        isMonitoring |-> j.isMonitoring,
        connections |-> j.connections, voiceConnections |-> j.voiceConnections]

NoChange ==
    [streams |-> streams, activeStreams |-> activeStreams, isMonitoring |-> isMonitoring,
     connections |-> connections, voiceConnections |-> voiceConnections]

\* the shape of the transition, as the conditions of lines 236, 242 and 264 tell it
PresenceCase(member, oldChannel, newChannel) ==
    IF member # AUTHORIZED_USER_ID THEN "ignored"
    ELSE IF oldChannel = None /\ newChannel # None THEN "join"
    ELSE IF oldChannel # None /\ newChannel = None THEN "leave"
    ELSE IF oldChannel # None /\ newChannel # None /\ oldChannel # newChannel THEN "move"
    ELSE "same"

VoiceStateUpdate(member, newChannel, throws) ==
    /\ pc = "running"
    /\ LET oldChannel == IF member = AUTHORIZED_USER_ID THEN subjectChannel ELSE None
           kind == PresenceCase(member, oldChannel, newChannel)
           r == CASE kind = "join" -> JoinCase(newChannel, throws)
                  [] kind = "leave" -> LeaveCase
                  [] kind = "move" -> MoveCase(newChannel, throws)
                  [] OTHER -> NoChange
       IN /\ kind \in {"join", "move"} => JoinFits(newChannel, throws)
          /\ kind \notin {"join", "move"} => ~throws
          /\ streams' = r.streams
          /\ activeStreams' = r.activeStreams
          /\ isMonitoring' = r.isMonitoring
          /\ connections' = r.connections
          /\ voiceConnections' = r.voiceConnections
          /\ subjectChannel' = IF member = AUTHORIZED_USER_ID THEN newChannel ELSE subjectChannel
          /\ lastEvent' = IF kind \in {"join", "leave", "move"}
                          THEN [Event(kind) EXCEPT !.conn = voiceConnections, !.threw = throws]
                          ELSE Event("other")
    /\ UNCHANGED <<pc, lastMuteTime, now, ticks, serverMute, muteLog, pendingMutes>>

(***************************************************************************)
(* client.on('messageCreate')  index.js:283-361                            *)
(* A message text is the sequence of its character codes.                  *)
(***************************************************************************)
\* String.prototype.toLowerCase on ASCII text: 'A'..'Z' (65..90) become 'a'..'z'
toLowerCase(text) ==
    [i \in 1..Len(text) |-> IF text[i] >= 65 /\ text[i] <= 90 THEN text[i] + 32 ELSE text[i]]

\* the literals the handler compares with
LitJoin == <<33, 69, 80, 95, 106, 111, 105, 110>>             \* index.js:286  '!EP_join'
LitLeave == <<33, 69, 80, 95, 108, 101, 97, 118, 101>>      \* index.js:296  '!EP_leave'
LitUnmute == <<33, 117, 110, 109, 117, 116, 101>>             \* index.js:314  '!unmute'
LitPause == <<33, 112, 97, 117, 115, 101, 109, 111, 110, 105, 116, 111, 114>>    \* index.js:331  '!pausemonitor'
LitResume == <<33, 114, 101, 115, 117, 109, 101, 109, 111, 110, 105, 116, 111, 114>>  \* index.js:337  '!resumemonitor'
LitStatus == <<33, 115, 116, 97, 116, 117, 115>>             \* index.js:344  '!status'

\* texts an operator may type: every command as the code spells it, the
\* commands spelt with capitals also in lower case, two commands in upper case,
\* and a text that is no command
Typed == {LitJoin, LitLeave, LitUnmute, LitPause, LitResume, LitStatus, <<104, 101, 108, 108, 111>>}
Upper(text) ==
    [i \in 1..Len(text) |-> IF text[i] >= 97 /\ text[i] <= 122 THEN text[i] - 32 ELSE text[i]]
Messages == Typed \cup {toLowerCase(LitJoin), toLowerCase(LitLeave)}
                  \cup {Upper(LitPause), Upper(LitResume)}

\* the branch of the handler a lower-cased text selects
Matched(text) ==
    IF text = LitJoin THEN "join"
    ELSE IF text = LitLeave THEN "leave"
    ELSE IF text = LitUnmute THEN "unmute"
    ELSE IF text = LitPause THEN "pausemonitor"
    ELSE IF text = LitResume THEN "resumemonitor"
    ELSE IF text = LitStatus THEN "status"
    ELSE None

\* index.js:286-344  message.content.toLowerCase() === literal, for every text
Command == [content \in Messages |-> Matched(toLowerCase(content))]

\* index.js:296-312  the !EP_leave branch
LeaveCommand ==
    LET connection == voiceConnections
    IN IF connection # 0
       THEN LET st == stopAllMonitoring(streams, activeStreams)
            IN [streams |-> st.streams, activeStreams |-> st.activeStreams,
                isMonitoring |-> st.isMonitoring,
                connections |-> ConnectionDestroy(connections, connection),
                voiceConnections |-> 0]
       ELSE NoChange

\* a pause that goes through stopAllMonitoring
PauseStoppingAll ==
    LET st == stopAllMonitoring(streams, activeStreams)
    IN [NoChange EXCEPT !.isMonitoring = st.isMonitoring, !.streams = st.streams,
                        !.activeStreams = st.activeStreams]

\* index.js:331-335  the !pausemonitor branch
PauseCommand == [NoChange EXCEPT !.isMonitoring = FALSE]

\* index.js:337-341  the !resumemonitor branch
ResumeCommand == [NoChange EXCEPT !.isMonitoring = TRUE]

\* the command a text names when letter case is ignored
NamedCommand(content) ==
    LET up == Upper(content)
    IN IF up = Upper(LitJoin) THEN "join"
       ELSE IF up = Upper(LitLeave) THEN "leave"
       ELSE IF up = Upper(LitUnmute) THEN "unmute"
       ELSE IF up = Upper(LitPause) THEN "pausemonitor"
       ELSE IF up = Upper(LitResume) THEN "resumemonitor"
       ELSE IF up = Upper(LitStatus) THEN "status"
       ELSE None

\* index.js:283-361  the whole handler.  The literals differ pairwise, so at most
\* one of the handler's consecutive ifs runs.
\* callerChannel: message.member.voice.channel; unmuteOk: setMute(false) resolves
MessageCreate(content, authorBot, callerChannel, throws, unmuteOk) ==
    /\ pc = "running"
    /\ LET cmd == IF authorBot THEN None ELSE Command[content]
           r == IF cmd = "join" /\ callerChannel # None THEN JoinCase(callerChannel, throws)
                ELSE IF cmd = "leave" THEN LeaveCommand
                ELSE IF cmd = "pausemonitor" THEN PauseCommand
                ELSE IF cmd = "resumemonitor" THEN ResumeCommand
                ELSE NoChange
       IN /\ cmd = "join" /\ callerChannel # None => JoinFits(callerChannel, throws)
          /\ streams' = r.streams
          /\ activeStreams' = r.activeStreams
          /\ isMonitoring' = r.isMonitoring
          /\ connections' = r.connections
          /\ voiceConnections' = r.voiceConnections
          /\ serverMute' = IF cmd = "unmute" /\ serverMute /\ unmuteOk THEN FALSE ELSE serverMute
          /\ lastEvent' = IF cmd \in {"join", "leave", "pausemonitor", "resumemonitor"}
                          THEN [Event("message") EXCEPT
                                   !.conn = voiceConnections, !.cmd = cmd,
                                   !.threw = (cmd = "join" /\ callerChannel # None /\ throws)]
                          ELSE Event("message")
    /\ UNCHANGED <<pc, lastMuteTime, now, ticks, muteLog, pendingMutes, subjectChannel>>

(***************************************************************************)
(* The setMute promise, the platform and the clock                         *)
(***************************************************************************)
\* user.voice.setMute(true, ...) resolves: the platform reports the member muted
SetMuteResolved ==
    /\ pc = "running"
    /\ pendingMutes > 0
    /\ subjectChannel # None
    /\ pendingMutes' = pendingMutes - 1
    /\ serverMute' = TRUE
    /\ lastEvent' = Event("other")
    /\ UNCHANGED <<pc, isMonitoring, lastMuteTime, activeStreams, streams, connections,
                   voiceConnections, now, ticks, muteLog, subjectChannel>>

\* a catch that puts lastMuteTime back to the time of the mute before the failed one
SetMuteRejectedRollingBack ==
    /\ pc = "running"
    /\ pendingMutes > 0
    /\ pendingMutes' = pendingMutes - 1
    /\ lastMuteTime' = IF Len(muteLog) >= 2 THEN muteLog[Len(muteLog) - 1].at ELSE 0
    /\ lastEvent' = Event("setMuteRejected")
    /\ UNCHANGED <<pc, isMonitoring, activeStreams, streams, connections,
                   voiceConnections, now, ticks, serverMute, muteLog, subjectChannel>>

\* a catch that clears the cooldown when the mute failed
SetMuteRejectedClearing ==
    /\ pc = "running"
    /\ pendingMutes > 0
    /\ pendingMutes' = pendingMutes - 1
    /\ lastMuteTime' = 0
    /\ lastEvent' = Event("setMuteRejected")
    /\ UNCHANGED <<pc, isMonitoring, activeStreams, streams, connections,
                   voiceConnections, now, ticks, serverMute, muteLog, subjectChannel>>

\* index.js:144-146  the promise rejects and the catch logs the error
SetMuteRejected ==
    /\ pc = "running"
    /\ pendingMutes > 0
    /\ pendingMutes' = pendingMutes - 1
    /\ lastEvent' = Event("setMuteRejected")
    /\ UNCHANGED <<pc, isMonitoring, lastMuteTime, activeStreams, streams, connections,
                   voiceConnections, now, ticks, serverMute, muteLog, subjectChannel>>

\* somebody else changes the member's server mute on the platform
ExternalMute(flag) ==
    /\ pc = "running"
    /\ Small
    /\ serverMute # flag
    /\ serverMute' = flag
    /\ lastEvent' = Event("other")
    /\ UNCHANGED <<pc, isMonitoring, lastMuteTime, activeStreams, streams, connections,
                   voiceConnections, now, ticks, muteLog, pendingMutes, subjectChannel>>

\* Date.now() advances
Tick(d) ==
    /\ pc = "running"
    /\ ticks < MaxTicks
    /\ Small
    /\ now' = now + d
    /\ ticks' = ticks + 1
    /\ lastEvent' = Event("other")
    /\ UNCHANGED <<pc, isMonitoring, lastMuteTime, activeStreams, streams, connections,
                   voiceConnections, serverMute, muteLog, pendingMutes, subjectChannel>>

(***************************************************************************)
(* connection.on('stateChange')  index.js:202-208                          *)
(***************************************************************************)
\* the managed connection goes to 'disconnected'
StateChangeDisconnected ==
    /\ pc = "running"
    /\ voiceConnections # 0
    /\ connections[voiceConnections].status = "ready"
    /\ connections' = [connections EXCEPT ![voiceConnections].status = "disconnected"]
    /\ LET st == stopAllMonitoring(streams, activeStreams)
       IN /\ isMonitoring' = st.isMonitoring
          /\ streams' = st.streams
          /\ activeStreams' = st.activeStreams
    /\ lastEvent' = Event("disconnected")
    /\ UNCHANGED <<pc, lastMuteTime, voiceConnections, now, ticks, serverMute, muteLog,
                   pendingMutes, subjectChannel>>

\* the library brings the connection back to 'ready': the listener only logs
StateChangeReady ==
    /\ pc = "running"
    /\ voiceConnections # 0
    /\ connections[voiceConnections].status = "disconnected"
    /\ connections' = [connections EXCEPT ![voiceConnections].status = "ready"]
    /\ lastEvent' = Event("reconnected")
    /\ UNCHANGED <<pc, isMonitoring, lastMuteTime, activeStreams, streams,
                   voiceConnections, now, ticks, serverMute, muteLog, pendingMutes,
                   subjectChannel>>

(***************************************************************************)
(* process.on('SIGINT')  index.js:364-369                                  *)
(***************************************************************************)
\* stopAllMonitoring(), client.destroy(), process.exit(0): the handler calls
\* destroy on no voice connection, and the exit follows in the same turn
Sigint ==
    /\ pc = "running"
    /\ pc' = "exited"
    /\ LET st == stopAllMonitoring(streams, activeStreams)
       IN /\ isMonitoring' = st.isMonitoring
          /\ streams' = st.streams
          /\ activeStreams' = st.activeStreams
    /\ lastEvent' = Event("sigint")
    /\ UNCHANGED <<lastMuteTime, connections, voiceConnections, now, ticks, serverMute,
                   muteLog, pendingMutes, subjectChannel>>

\* the inputs of a message that its text lets the handler look at
CallerChannels(content) ==
    IF Command[content] = "join" THEN Channels \cup {None} ELSE {None}
Throwing(content) == IF Command[content] = "join" THEN BOOLEAN ELSE {FALSE}
\* a message of a bot is dropped whatever its text: one text stands for all
Authors(content) == IF content = LitPause THEN BOOLEAN ELSE {FALSE}
Outcomes(content) == IF Command[content] = "unmute" THEN BOOLEAN ELSE {TRUE}

Next ==
    \/ \E throws \in BOOLEAN : Ready(throws)
    \/ \E c \in 1..MaxConnections, u \in Users, cached \in BOOLEAN : SpeakingStart(c, u, cached)
    \/ \E s \in 1..MaxStreams, chunk \in Chunks : DataHandler(s, chunk)
    \/ \E s \in 1..MaxStreams : ErrorHandler(s)
    \/ \E s \in 1..MaxStreams : EndHandler(s)
    \/ \E m \in Users, ch \in Channels \cup {None}, throws \in BOOLEAN :
          VoiceStateUpdate(m, ch, throws)
    \/ \E content \in Messages : \E bot \in Authors(content) :
          \E ch \in CallerChannels(content), throws \in Throwing(content),
             ok \in Outcomes(content) : MessageCreate(content, bot, ch, throws, ok)
    \/ SetMuteResolved
    \/ SetMuteRejected
    \/ \E flag \in BOOLEAN : ExternalMute(flag)
    \/ \E d \in TickSteps : Tick(d)
    \/ StateChangeDisconnected
    \/ StateChangeReady
    \/ Sigint

Spec == Init /\ [][Next]_vars

(***************************************************************************)
(* joinAndMonitor as a function any caller may call                        *)
(***************************************************************************)
\* index.js:169-224  a call of joinAndMonitor(channel, guild) with any channel of
\* the guild, whatever channel the member is in
JoinCall(channel, throws) ==
    /\ pc = "running"
    /\ JoinFits(channel, throws)
    /\ LET r == JoinCase(channel, throws)
       IN /\ streams' = r.streams
          /\ activeStreams' = r.activeStreams
          /\ isMonitoring' = r.isMonitoring
          /\ connections' = r.connections
          /\ voiceConnections' = r.voiceConnections
    /\ lastEvent' = [Event("joinCall") EXCEPT !.conn = voiceConnections, !.threw = throws]
    /\ UNCHANGED <<pc, lastMuteTime, now, ticks, serverMute, muteLog, pendingMutes,
                   subjectChannel>>

NextCall ==
    \/ Next
    \/ \E ch \in Channels, throws \in BOOLEAN : JoinCall(ch, throws)

CallSpec == Init /\ [][NextCall]_vars

(***************************************************************************)
(* Properties                                                              *)
(***************************************************************************)
Registered(s) == \E u \in DOMAIN activeStreams : activeStreams[u] = s
LiveStreams == {s \in 1..Len(streams) : Live(streams[s])}
AliveConnections == {c \in 1..Len(connections) : connections[c].status # "destroyed"}

\* C1  Cooldown: any two setMute(true) calls the data handler issues are at
\* least MUTE_COOLDOWN milliseconds apart, whatever the server mute does between
CooldownSpacing ==
    \A i, j \in 1..Len(muteLog) :
        i < j => muteLog[j].at - muteLog[i].at >= MUTE_COOLDOWN

\* a second mute has been dispatched
CooldownWitness == Len(muteLog) >= 2

\* C2  Positive decision: a frame dispatches a mute exactly when it is handled
\* with monitoring enabled, is not empty, the member is not server-muted, the
\* cooldown has passed and the loudness exceeds the threshold; the dispatch is
\* issued with lastMuteTime already equal to now; any other frame dispatches
\* nothing and leaves lastMuteTime alone
PositiveDecision ==
    [][\A s \in 1..MaxStreams, chunk \in Chunks :
          DataHandler(s, chunk) =>
              IF /\ isMonitoring
                 /\ Len(chunk) > 0
                 /\ ~serverMute
                 /\ now - lastMuteTime >= MUTE_COOLDOWN
                 /\ ExceedsThreshold(calculateVolume(chunk))
              THEN /\ muteLog' = Append(muteLog, [at |-> now, stamp |-> now])
                   /\ lastMuteTime' = now
                   /\ pendingMutes' = pendingMutes + 1
              ELSE /\ muteLog' = muteLog
                   /\ lastMuteTime' = lastMuteTime
                   /\ pendingMutes' = pendingMutes]_vars

\* a loud frame has just been handled and its mute dispatched
PositiveDecisionWitness ==
    /\ lastEvent.type = "frame"
    /\ lastEvent.level = "loud"
    /\ isMonitoring
    /\ muteLog # <<>>
    /\ muteLog[Len(muteLog)].at = now
    /\ lastMuteTime = now

\* C3  Already-muted guard: a frame handled while the member is server-muted
\* issues no setMute call, whatever its loudness and the cooldown
AlreadyMutedGuard ==
    [][\A s \in 1..MaxStreams, chunk \in Chunks :
          (DataHandler(s, chunk) /\ serverMute) =>
              /\ muteLog' = muteLog
              /\ pendingMutes' = pendingMutes
              /\ lastMuteTime' = lastMuteTime]_vars

\* a loud frame has just been handled with monitoring on, the cooldown over and
\* the member server-muted (the handler changes none of the three)
AlreadyMutedWitness ==
    /\ lastEvent.type = "frame"
    /\ lastEvent.level = "loud"
    /\ isMonitoring
    /\ serverMute
    /\ now - lastMuteTime >= MUTE_COOLDOWN

\* C4  At most one session: never two live (subscribed, not released) audio
\* streams of the member, and never more than one registered
AtMostOneSession ==
    /\ Cardinality(LiveStreams) <= 1
    /\ Cardinality(DOMAIN activeStreams) <= 1

\* C5  Global-disable propagation: after a frame handled with monitoring
\* disabled, the session of that frame is released and out of the registry
DisablePropagation ==
    (lastEvent.type = "frame" /\ ~isMonitoring) =>
        /\ ~Live(streams[lastEvent.stream])
        /\ ~Registered(lastEvent.stream)

\* C6  No start while disabled: a speaking-start handled while the enabled flag
\* is false subscribes nothing and registers nothing; handled for the member
\* while the flag is true and the registry has no entry, it registers a live
\* stream
StartOnlyWhileEnabled ==
    [][\A c \in 1..MaxConnections, u \in Users, cached \in BOOLEAN :
          SpeakingStart(c, u, cached) =>
              /\ ~isMonitoring => (streams' = streams /\ activeStreams' = activeStreams)
              /\ (isMonitoring /\ u = AUTHORIZED_USER_ID /\ cached
                    /\ ~Has(activeStreams, AUTHORIZED_USER_ID)) =>
                     /\ Has(activeStreams', AUTHORIZED_USER_ID)
                     /\ Live(streams'[activeStreams'[AUTHORIZED_USER_ID]])
                     /\ streams'[activeStreams'[AUTHORIZED_USER_ID]].conn = c]_vars

\* the member's speaking-start has just been handled on a ready connection
\* while monitoring is disabled and nothing is registered
StartOnlyWhileEnabledWitness ==
    /\ lastEvent.type = "speaking"
    /\ ~isMonitoring
    /\ activeStreams = EmptyMap
    /\ LiveStreams = {}

\* C7  Exactly-once release: destroy is called at most once on any stream
ReleasedAtMostOnce == \A s \in 1..Len(streams) : streams[s].destroyCalls <= 1

\* C8  Decoder-error recovery: after the error handler the session is out of
\* the registry and its subscription is released, so that no live stream is
\* missing from the registry
ErrorRecovery ==
    lastEvent.type = "error" =>
        /\ ~Registered(lastEvent.stream)
        /\ ~Live(streams[lastEvent.stream])
        /\ \A s \in LiveStreams : Registered(s)

\* C9  Leave: after the leave handler the member's session is destroyed, the
\* managed connection is destroyed, the enabled flag is false and the registry
\* is empty
LeavePostcondition ==
    lastEvent.type = "leave" =>
        /\ LiveStreams = {}
        /\ voiceConnections = 0
        /\ AliveConnections = {}
        /\ ~isMonitoring
        /\ activeStreams = EmptyMap

\* C10  Move: after the move handler the old session is stopped, the old
\* connection is destroyed and exactly one connection is alive, joined to the
\* new channel, with monitoring enabled; the old and the new connection are
\* never alive together
MovePostcondition ==
    /\ Cardinality(AliveConnections) <= 1
    /\ lastEvent.type = "move" =>
        /\ activeStreams = EmptyMap
        /\ \A s \in LiveStreams : streams[s].conn = voiceConnections
        /\ lastEvent.conn # 0 => connections[lastEvent.conn].status = "destroyed"
        /\ Cardinality(AliveConnections) = 1
        /\ voiceConnections \in AliveConnections
        /\ connections[voiceConnections].channelId = subjectChannel
        /\ isMonitoring

\* C11  Join is idempotent: a call of joinAndMonitor for the channel the managed
\* connection is already joined to destroys no connection, creates none (and so
\* registers no listener), keeps the connection the guild maps to and leaves the
\* streams and the registry alone
JoinIdempotent ==
    [][\A ch \in Channels, throws \in BOOLEAN :
          (/\ JoinCall(ch, throws)
           /\ voiceConnections # 0
           /\ connections[voiceConnections].channelId = ch) =>
              /\ connections' = connections
              /\ voiceConnections' = voiceConnections
              /\ streams' = streams
              /\ activeStreams' = activeStreams]_vars

\* joinAndMonitor has just been called for the channel of the managed
\* connection, which is still the one the guild maps to, with a stream registered
JoinIdempotentWitness ==
    /\ lastEvent.type = "joinCall"
    /\ lastEvent.conn # 0
    /\ lastEvent.conn = voiceConnections
    /\ connections[voiceConnections].status = "ready"
    /\ activeStreams # EmptyMap

\* C12  At most one managed connection: in every state at most one connection
\* of the guild is not destroyed, and it is the one the guild maps to
AtMostOneConnection ==
    /\ Cardinality(AliveConnections) <= 1
    /\ AliveConnections \subseteq {voiceConnections}

\* the bot has joined a second channel: the stale connection is destroyed, the
\* new one is alive
AtMostOneConnectionWitness ==
    /\ Len(connections) = 2
    /\ connections[1].status = "destroyed"
    /\ connections[2].status = "ready"
    /\ connections[1].channelId # connections[2].channelId
    /\ voiceConnections = 2

\* C13  disable() is safe and idempotent: called in any state, stopAllMonitoring
\* leaves the enabled flag false, every registered stream released, every other
\* stream as it was and the registry empty, and a second call right after it
\* changes nothing and releases nothing again; the same holds of the state the
\* handlers that end with it leave behind
StopIdempotent ==
    LET once == stopAllMonitoring(streams, activeStreams)
        twice == stopAllMonitoring(once.streams, once.activeStreams)
    IN /\ ~once.isMonitoring
       /\ once.activeStreams = EmptyMap
       /\ Len(once.streams) = Len(streams)
       /\ \A s \in 1..Len(streams) :
              IF Registered(s) THEN ~Live(once.streams[s]) ELSE once.streams[s] = streams[s]
       /\ twice = once
       /\ lastEvent.type \in {"disconnected", "sigint"} =>
              /\ ~isMonitoring
              /\ activeStreams = EmptyMap
              /\ once.streams = streams

\* stopAllMonitoring has just run in mid-session: the connection went to
\* 'disconnected' while a stream was registered, and the stream is released
StopIdempotentWitness ==
    /\ lastEvent.type = "disconnected"
    /\ \E s \in 1..Len(streams) : streams[s].destroyCalls = 1 /\ ~streams[s].ended

\* C14  lastMuteTime never decreases, and only a frame that dispatches a mute
\* writes it: every step either leaves it alone or is a data-handler step that
\* sets it to the current time and issues one setMute call
MuteTimeMonotone ==
    [][/\ lastMuteTime' >= lastMuteTime
       /\ lastMuteTime' # lastMuteTime =>
              /\ lastEvent'.type = "frame"
              /\ lastMuteTime' = now
              /\ muteLog' = Append(muteLog, [at |-> now, stamp |-> now])]_vars

\* lastMuteTime has been written twice, the second time with a later time, and
\* a rejected setMute has been handled since
MuteTimeMonotoneWitness ==
    /\ Len(muteLog) = 2
    /\ lastMuteTime = muteLog[2].at
    /\ muteLog[2].at > muteLog[1].at
    /\ lastEvent.type = "setMuteRejected"

\* C15  A failed mute keeps the cooldown: the rejection of a setMute call
\* leaves lastMuteTime at the time of that call, and a frame handled less than
\* MUTE_COOLDOWN after the last setMute call dispatches no mute, whether that
\* call failed or not and although the member is not server-muted
FailedMuteKeepsCooldown ==
    [][/\ SetMuteRejected =>
              /\ lastMuteTime' = lastMuteTime
              /\ lastMuteTime' = muteLog[Len(muteLog)].at
       /\ \A s \in 1..MaxStreams, chunk \in Chunks :
              (/\ DataHandler(s, chunk)
               /\ ~serverMute
               /\ muteLog # <<>>
               /\ now - muteLog[Len(muteLog)].at < MUTE_COOLDOWN) =>
                  /\ muteLog' = muteLog
                  /\ pendingMutes' = pendingMutes
                  /\ lastMuteTime' = lastMuteTime]_vars

\* the rejection of the only setMute call has just been handled, 2500 ms after
\* the call: the member is not server-muted, monitoring is on, lastMuteTime is
\* still the time of the call and the stream can deliver the next frame
FailedMuteWitness ==
    /\ lastEvent.type = "setMuteRejected"
    /\ isMonitoring
    /\ ~serverMute
    /\ Len(muteLog) = 1
    /\ pendingMutes = 0
    /\ lastMuteTime = muteLog[1].at
    /\ now - muteLog[1].at = MUTE_COOLDOWN \div 2
    /\ \E s \in 1..Len(streams) : CanDeliver(s)

\* C16  The commands ignore letter case: a message of a caller who is in a voice
\* channel whose text is the join command in any letter case makes the bot join
\* that channel with monitoring enabled, and a message whose text is the leave
\* command in any letter case, handled while a connection exists, stops
\* monitoring and destroys the connection
CommandsIgnoreCase ==
    [][\A content \in Messages, ch \in Channels, ok \in BOOLEAN :
          MessageCreate(content, FALSE, ch, FALSE, ok) =>
              /\ NamedCommand(content) = "join" =>
                     /\ voiceConnections' # 0
                     /\ connections'[voiceConnections'].channelId = ch
                     /\ connections'[voiceConnections'].status = "ready"
                     /\ isMonitoring'
              /\ (NamedCommand(content) = "leave" /\ voiceConnections # 0) =>
                     /\ ~isMonitoring'
                     /\ activeStreams' = EmptyMap
                     /\ connections'[voiceConnections].status = "destroyed"
                     /\ voiceConnections' = 0]_vars

\* the texts that name the pause and the resume command, in any letter case
PauseTexts == {content \in Messages : NamedCommand(content) = "pausemonitor"}
ResumeTexts == {content \in Messages : NamedCommand(content) = "resumemonitor"}

\* C17  pausemonitor and resumemonitor write the enabled flag only: the step of
\* a message that names one of them sets the flag (false for pause, true for
\* resume) and leaves the connections, the managed connection, the streams, the
\* registry and lastMuteTime as they were
PauseResumeFrame ==
    [][\A content \in PauseTexts \cup ResumeTexts :
          (lastEvent'.type = "message" /\ MessageCreate(content, FALSE, None, FALSE, TRUE)) =>
              /\ isMonitoring' = (content \in ResumeTexts)
              /\ connections' = connections
              /\ voiceConnections' = voiceConnections
              /\ streams' = streams
              /\ activeStreams' = activeStreams
              /\ lastMuteTime' = lastMuteTime
              /\ muteLog' = muteLog]_vars

\* a pause has just been handled in mid-session, after a mute: the connection,
\* the registered live stream and lastMuteTime are still there
PauseResumeWitness ==
    /\ lastEvent.type = "message"
    /\ lastEvent.cmd = "pausemonitor"
    /\ ~isMonitoring
    /\ voiceConnections # 0
    /\ Has(activeStreams, AUTHORIZED_USER_ID)
    /\ Live(streams[activeStreams[AUTHORIZED_USER_ID]])
    /\ lastMuteTime > 0

\* C18  Shutdown is a full teardown: once the process has exited on the
\* termination signal the enabled flag is false, no stream is still subscribed,
\* the registry is empty and no voice connection is left undestroyed
ShutdownTeardown ==
    pc = "exited" =>
        /\ ~isMonitoring
        /\ activeStreams = EmptyMap
        /\ LiveStreams = {}
        /\ AliveConnections = {}
        /\ voiceConnections = 0

\* C19  A late callback spares the newer session: an 'end' or 'error' handler
\* that runs for a stream other than the registered one, while the registered
\* stream is live, leaves the registry as it was
LateCallbackKeepsNewer ==
    [][\A s \in 1..MaxStreams :
          (/\ EndHandler(s) \/ ErrorHandler(s)
           /\ Has(activeStreams, AUTHORIZED_USER_ID)
           /\ activeStreams[AUTHORIZED_USER_ID] # s
           /\ Live(streams[activeStreams[AUTHORIZED_USER_ID]])) =>
              activeStreams' = activeStreams]_vars

\* C20  Disconnect tears monitoring down: the step of the 'disconnected' state
\* change leaves the enabled flag false, every stream that was registered
\* released and the registry empty; the flag then stays false until a resume
\* command or a join enables it, and while it is false a speaking-start
\* subscribes and registers nothing
DisconnectTeardown ==
    [][/\ StateChangeDisconnected =>
              /\ ~isMonitoring'
              /\ activeStreams' = EmptyMap
              /\ \A s \in 1..Len(streams) : Registered(s) => ~Live(streams'[s])
       /\ (~isMonitoring /\ isMonitoring') =>
              \/ lastEvent'.type \in {"ready", "join", "move", "joinCall"}
              \/ lastEvent'.type = "message" /\ lastEvent'.cmd = "resumemonitor"
       /\ (~isMonitoring /\ lastEvent'.type = "speaking") =>
              /\ streams' = streams
              /\ activeStreams' = activeStreams]_vars

\* the connection was disconnected in mid-session and has just come back: it is
\* ready, the member is in its channel and can start speaking, monitoring is
\* still disabled, the stream of the session is released and the registry empty
DisconnectTeardownWitness ==
    /\ lastEvent.type = "reconnected"
    /\ ~isMonitoring
    /\ activeStreams = EmptyMap
    /\ voiceConnections # 0
    /\ connections[voiceConnections].status = "ready"
    /\ subjectChannel = connections[voiceConnections].channelId
    /\ \E s \in 1..Len(streams) :
           streams[s].conn = voiceConnections /\ streams[s].destroyCalls = 1

====
